---- MODULE Spec2Model ----
(***************************************************************************)
(* Channel processing pipeline of the receipts backend: the BullMQ queue   *)
(* "pipeline", the single worker with its four stage handlers, the Redis   *)
(* status documents, the Video / Prediction / YouTuber rows, the entry     *)
(* point startChannelPipeline, forceStartAnalysis and runStartupAnalysis.  *)
(*                                                                         *)
(* Time is relative: every delayed job carries the milliseconds that are   *)
(* left until BullMQ promotes it, and the action Promote lets time pass    *)
(* up to the next promotion.                                               *)
(***************************************************************************)
EXTENDS Integers, Sequences, FiniteSets, TLC

(* ------------------------------ bounds --------------------------------- *)
NumCreators == 2
NumVideos == 3
MaxEvents == 2
MaxSweeps == 1

(* ------------------------- program constants --------------------------- *)
delayBetweenTranscripts == 2000
delayBetweenAnalysis == 3000
maxVideosToProcess == 50
completionMargin == 5000
attempts == 3
backoffDelay == 5000
concurrency == 1
startupBatch == 100
fetchLimit == 100

Creators == 1..NumCreators
ExtIds == 1..NumVideos

\* The channel an external video id belongs to on the video platform.
ChannelOf(e) == ((e - 1) % NumCreators) + 1

\* Videos are published in the order of their external ids.
PublishedAt(e) == e

VARIABLES
    youtubers,   \* YouTuber rows: creator -> aggregate fields
    videos,      \* Video rows: sequence indexed by the database id
    pstatus,     \* Redis pipeline:status:<id> documents
    waiting,     \* BullMQ wait list, head = next job
    delayed,     \* BullMQ delayed set: <<job, ms left>>, insertion order
    active,      \* BullMQ active list (at most `concurrency` jobs)
    stalled,     \* jobs left in the active list by a process that died
    failedJobs,  \* number of jobs moved to the failed set
    sweepRuns,   \* runStartupAnalysis invocations since the process started
    batches,     \* number of analysis batches enqueued so far (job ids)
    sd,          \* the shutdown handler: its position and what it has closed
    budget,      \* what is left of the bounds on requests, failures and rows
    last         \* the operation that produced the current state

vars == <<youtubers, videos, pstatus, waiting, delayed, active, stalled,
          failedJobs, sweepRuns, batches, sd, budget, last>>

(* ------------------------------ helpers -------------------------------- *)
Min(a, b) == IF a < b THEN a ELSE b

Take(s, n) == SubSeq(s, 1, Min(n, Len(s)))

RECURSIVE Pow2(_)
Pow2(n) == IF n = 0 THEN 1 ELSE 2 * Pow2(n - 1)

\* Math.round(x) for x = num / den >= 0: round half up.
RoundDiv(num, den) == (2 * num + den) \div (2 * den)

RECURSIVE SumOver(_, _)
SumOver(S, f) ==
    IF S = {} THEN 0
    ELSE LET x == CHOOSE y \in S : TRUE IN f[x] + SumOver(S \ {x}, f)

(* --------------------------- relational store -------------------------- *)
NoTranscript == "null"
RealTranscript == "segments"
Unavailable == "TRANSCRIPT_UNAVAILABLE"

\* A deleted row keeps its place in the sequence (database ids are never
\* reused) and is invisible to every query.
VideoIds(vs) == {i \in DOMAIN vs : ~vs[i].deleted}

\* prisma.video.findMany({ orderBy: { publishedAt: "desc" } }) over a set of ids
RECURSIVE OrderByPublishedDesc(_, _)
OrderByPublishedDesc(vs, S) ==
    IF S = {} THEN <<>>
    ELSE LET m == CHOOSE i \in S :
                    \A j \in S : PublishedAt(vs[j].videoId) <= PublishedAt(vs[i].videoId)
         IN <<m>> \o OrderByPublishedDesc(vs, S \ {m})

VideosOf(vs, c) == {i \in VideoIds(vs) : vs[i].youtuberId = c}

WithoutTranscript(vs, c) == {i \in VideosOf(vs, c) : vs[i].transcript = NoTranscript}

WithTranscript(vs, c) == {i \in VideosOf(vs, c) : vs[i].transcript # NoTranscript}

ToAnalyze(vs, c) == {i \in WithTranscript(vs, c) : ~vs[i].analyzed}

AnalyzedOf(vs, c) == {i \in VideosOf(vs, c) : vs[i].analyzed}

\* A row carries the counts of its Prediction rows: accuracyScore null
\* (unverified), below 70 (wrong), 70 or more (correct). avgScore is null
\* (NoScore) until an analysis writes it.
NoScore == -1

NewVideo(c, e) ==
    [videoId |-> e, youtuberId |-> c, transcript |-> NoTranscript,
     analyzed |-> FALSE, unverified |-> 0, wrong |-> 0, correct |-> 0,
     avgScore |-> NoScore, deleted |-> FALSE]

\* A variant of UpsertVideo that always creates a row (C8 must reject it).
UpsertVideoAlwaysCreates(vs, c, e) == Append(vs, NewVideo(c, e))

\* prisma.video.upsert({ where: { videoId } }): update the row with this
\* external id when there is one, create a row otherwise.
UpsertVideo(vs, c, e) ==
    IF \E i \in VideoIds(vs) : vs[i].videoId = e
    THEN vs
    ELSE Append(vs, NewVideo(c, e))

RECURSIVE UpsertAll(_, _, _)
UpsertAll(vs, c, es) ==
    IF es = {} THEN vs
    ELSE LET e == CHOOSE x \in es : \A y \in es : x <= y
         IN UpsertAll(UpsertVideo(vs, c, e), c, es \ {e})

(* ----------------------------- status store ---------------------------- *)
NoStatus ==
    [set |-> FALSE, status |-> "idle", totalVideos |-> 0,
     transcriptsFetched |-> 0, videosAnalyzed |-> 0,
     error |-> FALSE, completedAt |-> FALSE]

\* updatePipelineStatus: { defaults, ...current, ...update } written back.
MergeStatus(cur, update) ==
    [f \in DOMAIN cur |->
        IF f = "set" THEN TRUE
        ELSE IF f \in DOMAIN update THEN update[f] ELSE cur[f]]

updatePipelineStatus(ps, c, update) ==
    [ps EXCEPT ![c] = MergeStatus(ps[c], update)]

\* A variant of isPipelineRunning that never reports a running pipeline.
isPipelineRunningNever(ps, c) == FALSE

isPipelineRunning(ps, c) ==
    /\ ps[c].set
    /\ ps[c].status \in {"syncing", "fetching-transcripts", "analyzing"}

(* -------------------------------- queue -------------------------------- *)
\* batch: the call that added the job together with its siblings (0 outside
\* the analysis phase); BullMQ gives every job an id of its own.
Job(type, c, v) ==
    [type |-> type, youtuberId |-> c, videoId |-> v, attemptsMade |-> 0,
     batch |-> 0]

\* addJob: pipelineQueue.add(type, data, { delay }); a job without delay
\* goes to the wait list, a job with a delay to the delayed set.
addJob(q, job, delay) ==
    IF delay = 0
    THEN [q EXCEPT !.waiting = Append(@, job)]
    ELSE [q EXCEPT !.delayed = Append(@, <<job, delay>>)]

RECURSIVE addStaggered(_, _, _, _, _, _)
\* for (i = 0; i < ids.length; i++) addJob({type, videoId: ids[i]}, {delay: (offset + i) * spacing})
addStaggered(q, type, c, ids, first, spacing) ==
    IF ids = <<>> THEN q
    ELSE addStaggered(addJob(q, Job(type, c, Head(ids)), first * spacing),
                      type, c, Tail(ids), first + 1, spacing)

\* pipelineQueue.getWaiting() followed by pipelineQueue.getActive()
WaitingAndActive(w, a) == w \o a

FetchJobsIn(js, c) ==
    {i \in DOMAIN js : js[i].type = "fetch-transcript" /\ js[i].youtuberId = c}

(* ------------------------- creator aggregates -------------------------- *)
\* avgScore is kept as the exact fraction <<sum, count>>.
NewYouTuber(e) ==
    [exists |-> e, totalPredictions |-> 0, correctPredictions |-> 0,
     accuracyPercent |-> 0, avgScore |-> <<0, 1>>]

\* A variant of ScoredPredictions that counts every Prediction row of the
\* creator, scored or not (C9 must reject it).
ScoredPredictionsAllRows(vs, c) ==
    SumOver(VideosOf(vs, c),
            [i \in DOMAIN vs |-> vs[i].unverified + vs[i].wrong + vs[i].correct])

\* Prediction rows counted by recalculateYouTuberScore: accuracyScore not
\* null, on an analyzed video of the creator.
ScoredPredictions(vs, c) ==
    SumOver(AnalyzedOf(vs, c), [i \in DOMAIN vs |-> vs[i].wrong + vs[i].correct])

CorrectPredictions(vs, c) ==
    SumOver(AnalyzedOf(vs, c), [i \in DOMAIN vs |-> vs[i].correct])

\* Math.round((correct / total) * 100 * 100) / 100, kept in hundredths of a percent.
AccuracyPercent(correctN, total) ==
    IF total > 0 THEN RoundDiv(correctN * 100 * 100, total) ELSE 0

\* videoStats._avg.avgScore || 0 over the analyzed videos of the creator
\* whose avgScore is not null.
AvgVideoScore(vs, c) ==
    LET rated == {i \in AnalyzedOf(vs, c) : vs[i].avgScore # NoScore}
    IN IF rated = {} THEN <<0, 1>>
       ELSE <<SumOver(rated, [i \in DOMAIN vs |-> vs[i].avgScore]),
              Cardinality(rated)>>

recalculateYouTuberScore(ys, vs, c) ==
    [ys EXCEPT ![c] =
        [@ EXCEPT !.avgScore = AvgVideoScore(vs, c),
                  !.totalPredictions = ScoredPredictions(vs, c),
                  !.correctPredictions = CorrectPredictions(vs, c),
                  !.accuracyPercent =
                      AccuracyPercent(CorrectPredictions(vs, c), ScoredPredictions(vs, c))]]

(* --------------------------- pipeline service -------------------------- *)
\* The functions below take and return the store S =
\* [youtubers, videos, pstatus, waiting, delayed].

\* A variant of completePipeline whose catch block leaves the status as
\* it is.
completePipelineKeepsStatus(S, c, aggOk) ==
    IF aggOk /\ S.youtubers[c].exists
    THEN [S EXCEPT
            !.youtubers = recalculateYouTuberScore(S.youtubers, S.videos, c),
            !.pstatus = updatePipelineStatus(S.pstatus, c,
                [status |-> "completed",
                 videosAnalyzed |-> Cardinality(AnalyzedOf(S.videos, c)),
                 completedAt |-> TRUE])]
    ELSE S

\* completePipeline: aggOk = FALSE stands for the aggregation throwing
\* (the YouTuber row is gone, or the database call fails).
completePipeline(S, c, aggOk) ==
    IF aggOk /\ S.youtubers[c].exists
    THEN [S EXCEPT
            !.youtubers = recalculateYouTuberScore(S.youtubers, S.videos, c),
            !.pstatus = updatePipelineStatus(S.pstatus, c,
                [status |-> "completed",
                 videosAnalyzed |-> Cardinality(AnalyzedOf(S.videos, c)),
                 completedAt |-> TRUE])]
    ELSE [S EXCEPT
            !.pstatus = updatePipelineStatus(S.pstatus, c,
                [status |-> "failed", error |-> TRUE])]

\* The videos queueAnalysisJobs selects: transcript not null, not analyzed.
AnalysisSelection(vs, c) ==
    Take(OrderByPublishedDesc(vs, ToAnalyze(vs, c)), maxVideosToProcess)

\* A variant of enqueueAnalysis that restarts the delays at 0 for every
\* creator.
enqueueAnalysisFromZero(S, c, ids, first) ==
    LET q == addJob(addStaggered(S, "analyze-video", c, ids, 0, delayBetweenAnalysis),
                    Job("complete-pipeline", c, 0),
                    Len(ids) * delayBetweenAnalysis + completionMargin)
    IN [q EXCEPT
          !.waiting = [i \in DOMAIN q.waiting |->
                          IF i > Len(S.waiting)
                          THEN [q.waiting[i] EXCEPT !.batch = S.batches + 1]
                          ELSE q.waiting[i]],
          !.delayed = [i \in DOMAIN q.delayed |->
                          IF i > Len(S.delayed)
                          THEN <<[q.delayed[i][1] EXCEPT !.batch = S.batches + 1],
                                 q.delayed[i][2]>>
                          ELSE q.delayed[i]],
          !.batches = S.batches + 1]

\* The jobs added to q since q0 carry the batch number b.
InBatch(q0, q, b) ==
    [q EXCEPT
        !.waiting = [i \in DOMAIN q.waiting |->
                        IF i > Len(q0.waiting)
                        THEN [q.waiting[i] EXCEPT !.batch = b] ELSE q.waiting[i]],
        !.delayed = [i \in DOMAIN q.delayed |->
                        IF i > Len(q0.delayed)
                        THEN <<[q.delayed[i][1] EXCEPT !.batch = b], q.delayed[i][2]>>
                        ELSE q.delayed[i]],
        !.batches = b]

enqueueAnalysis(S, c, ids, first) ==
    InBatch(S,
        addJob(addStaggered(S, "analyze-video", c, ids, first, delayBetweenAnalysis),
               Job("complete-pipeline", c, 0),
               (first + Len(ids)) * delayBetweenAnalysis + completionMargin),
        S.batches + 1)

\* A variant of queueAnalysisJobs that enqueues the completion job even
\* when no video is selected (C12 must reject it).
queueAnalysisJobsAlwaysEnqueues(S, c, aggOk) ==
    LET S1 == [S EXCEPT !.pstatus =
                  updatePipelineStatus(S.pstatus, c, [status |-> "analyzing"])]
    IN enqueueAnalysis(S1, c, AnalysisSelection(S1.videos, c), 0)

queueAnalysisJobs(S, c, aggOk) ==
    LET S1 == [S EXCEPT !.pstatus =
                  updatePipelineStatus(S.pstatus, c, [status |-> "analyzing"])]
        ids == AnalysisSelection(S1.videos, c)
    IN IF ids = <<>>
       THEN completePipeline(S1, c, aggOk)
       ELSE enqueueAnalysis(S1, c, ids, 0)

\* syncChannelVideos: the platform returns the videos `found` of the
\* channel (at most fetchLimit of them); each one is upserted.
syncChannelVideos(S, c, found) ==
    [S EXCEPT !.videos = UpsertAll(S.videos, c, found)]

\* processSyncVideos, the body of the try block; listOk = FALSE is the
\* catch block (fetch failed or creator missing) before the rethrow.
SyncThrows(S, c, listOk) == ~listOk \/ ~S.youtubers[c].exists

processSyncVideos(S, c, found, listOk, aggOk) ==
    LET S0 == [S EXCEPT !.pstatus = updatePipelineStatus(S.pstatus, c,
                    [currentStep |-> "Syncing videos"])]
    IN IF SyncThrows(S, c, listOk)
       THEN [S0 EXCEPT !.pstatus = updatePipelineStatus(S0.pstatus, c,
                [status |-> "failed", error |-> TRUE])]
       ELSE LET S1 == syncChannelVideos(S0, c, found)
                videoCount == Min(Cardinality(found), maxVideosToProcess)
                S2 == [S1 EXCEPT !.pstatus = updatePipelineStatus(S1.pstatus, c,
                          [status |-> "fetching-transcripts",
                           totalVideos |-> videoCount])]
                ids == Take(OrderByPublishedDesc(S2.videos,
                                WithoutTranscript(S2.videos, c)),
                            maxVideosToProcess)
            IN IF ids = <<>>
               THEN queueAnalysisJobs(S2, c, aggOk)
               ELSE addStaggered(S2, "fetch-transcript", c, ids, 0,
                                 delayBetweenTranscripts)

\* fetchAndSaveTranscript inside processFetchTranscript: the fetched
\* transcript on success, the placeholder written by the catch block otherwise.
FetchThrows(S, job) == job.videoId \notin VideoIds(S.videos)

\* A variant of processFetchTranscript whose catch block leaves the
\* transcript null.
processFetchTranscriptLeavesNull(S, job, others, fetchOk, aggOk) ==
    LET c == job.youtuberId
        S1 == IF fetchOk
              THEN [S EXCEPT !.videos[job.videoId].transcript = RealTranscript]
              ELSE S
        pendingTranscriptJobs == FetchJobsIn(WaitingAndActive(S1.waiting, others), c)
    IN IF pendingTranscriptJobs = {}
       THEN queueAnalysisJobs(S1, c, aggOk)
       ELSE S1

processFetchTranscript(S, job, others, fetchOk, aggOk) ==
    LET c == job.youtuberId
        S1 == [S EXCEPT !.videos[job.videoId].transcript =
                  IF fetchOk THEN RealTranscript ELSE Unavailable]
        S2 == [S1 EXCEPT !.pstatus = updatePipelineStatus(S1.pstatus, c,
                  [transcriptsFetched |-> Cardinality(WithTranscript(S1.videos, c))])]
        pendingTranscriptJobs == FetchJobsIn(WaitingAndActive(S2.waiting, others), c)
    IN IF pendingTranscriptJobs = {}
       THEN queueAnalysisJobs(S2, c, aggOk)
       ELSE S2

\* What one run of analyzeVideo meets: the transcript fetch of getTranscript
\* (used only when the row has no transcript), the extraction, and the
\* predictions it saves (unverified / scored below 70 / scored 70 or more).
AnalysisOutcomes(n) ==
    {[fetchOk |-> f, extractOk |-> x, unverified |-> u, wrong |-> w, correct |-> k] :
        f \in BOOLEAN, x \in BOOLEAN, u \in 0..n, w \in 0..n, k \in 0..n}

NewPredictions(o) == o.unverified + o.wrong + o.correct

AnalyzeThrows(S, v, o) ==
    \/ v \notin VideoIds(S.videos)
    \/ S.videos[v].transcript = NoTranscript /\ ~o.fetchOk
    \/ /\ S.videos[v].transcript # Unavailable
       /\ ~o.extractOk

\* avgScore of one run: the mean of the scores it verified, 0 when it
\* verified none. A wrong prediction scores 50 and a correct one 100; a run
\* saves at most one scored prediction, so the division is exact.
RunAvgScore(o) ==
    IF o.wrong + o.correct = 0 THEN 0
    ELSE (50 * o.wrong + 100 * o.correct) \div (o.wrong + o.correct)

analyzeVideo(S, v, o) ==
    LET S1 == IF v \in VideoIds(S.videos) /\ S.videos[v].transcript = NoTranscript
                 /\ o.fetchOk
              THEN [S EXCEPT !.videos[v].transcript = RealTranscript]
              ELSE S
    IN IF AnalyzeThrows(S, v, o) THEN S1
       ELSE IF S1.videos[v].transcript = Unavailable
       THEN [S1 EXCEPT !.videos[v].analyzed = TRUE, !.videos[v].avgScore = 0]
       ELSE LET S2 == [S1 EXCEPT
                        !.videos[v].unverified = @ + o.unverified,
                        !.videos[v].wrong = @ + o.wrong,
                        !.videos[v].correct = @ + o.correct,
                        !.videos[v].avgScore = RunAvgScore(o),
                        !.videos[v].analyzed = TRUE]
            IN [S2 EXCEPT !.youtubers =
                   recalculateYouTuberScore(S2.youtubers, S2.videos,
                                            S2.videos[v].youtuberId)]

\* A variant of processAnalyzeVideo whose catch block marks the pipeline
\* failed (C7 must reject it).
processAnalyzeVideoFailsPipeline(S, job, o) ==
    LET S1 == analyzeVideo(S, job.videoId, o)
    IN IF AnalyzeThrows(S, job.videoId, o)
       THEN [S1 EXCEPT !.pstatus = updatePipelineStatus(S1.pstatus, job.youtuberId,
                [status |-> "failed", error |-> TRUE])]
       ELSE [S1 EXCEPT !.pstatus = updatePipelineStatus(S1.pstatus, job.youtuberId,
                [videosAnalyzed |-> Cardinality(AnalyzedOf(S1.videos, job.youtuberId))])]

processAnalyzeVideo(S, job, o) ==
    LET S1 == analyzeVideo(S, job.videoId, o)
    IN IF AnalyzeThrows(S, job.videoId, o) THEN S1
       ELSE [S1 EXCEPT !.pstatus = updatePipelineStatus(S1.pstatus, job.youtuberId,
                [videosAnalyzed |-> Cardinality(AnalyzedOf(S1.videos, job.youtuberId))])]

(* --------------------- force restart and startup sweep ------------------ *)
\* A variant of MarkUnavailable that leaves the rows as they are (C4 must
\* reject it).
MarkNothingUnavailable(vs, c) == vs

\* forceStartAnalysis: updateMany({ transcript: null } -> placeholder).
MarkUnavailable(vs, c) ==
    [i \in DOMAIN vs |->
        IF i \in WithoutTranscript(vs, c)
        THEN [vs[i] EXCEPT !.transcript = Unavailable]
        ELSE vs[i]]

forceStartAnalysis(S, c) ==
    IF ~S.youtubers[c].exists THEN S
    ELSE LET videosToAnalyze == AnalysisSelection(S.videos, c)
             n == Len(videosToAnalyze)
             S1 == [S EXCEPT !.videos = MarkUnavailable(S.videos, c)]
         IN IF n = 0
            THEN [S1 EXCEPT !.pstatus = updatePipelineStatus(S1.pstatus, c,
                    [status |-> "completed", completedAt |-> TRUE])]
            ELSE enqueueAnalysis(
                    [S1 EXCEPT !.pstatus = updatePipelineStatus(S1.pstatus, c,
                        [status |-> "analyzing", totalVideos |-> n,
                         transcriptsFetched |-> n, videosAnalyzed |-> 0])],
                    c, videosToAnalyze, 0)

\* prisma.youTuber.findMany(): the existing creators.
RECURSIVE YouTuberList(_, _)
YouTuberList(ys, c) ==
    IF c > NumCreators THEN <<>>
    ELSE (IF ys[c].exists THEN <<c>> ELSE <<>>) \o YouTuberList(ys, c + 1)

\* First loop of runStartupAnalysis: a creator whose status document says
\* fetching-transcripts and that has no fetch-transcript job among the
\* waiting and active jobs is forced to the analysis phase.
IsStuck(S, c, activeJobs) ==
    /\ S.pstatus[c].set
    /\ S.pstatus[c].status = "fetching-transcripts"
    /\ FetchJobsIn(WaitingAndActive(S.waiting, activeJobs), c) = {}

RECURSIVE repairStuck(_, _, _)
repairStuck(S, cs, activeJobs) ==
    IF cs = <<>> THEN S
    ELSE repairStuck(IF IsStuck(S, Head(cs), activeJobs)
                     THEN forceStartAnalysis(S, Head(cs)) ELSE S,
                     Tail(cs), activeJobs)

\* Second part: up to startupBatch videos with a transcript and analyzed = false.
Unanalyzed(vs) ==
    Take(OrderByPublishedDesc(vs,
            {i \in VideoIds(vs) : vs[i].transcript # NoTranscript /\ ~vs[i].analyzed}),
         startupBatch)

\* videosByYouTuber: a Map keeps the creators in the order they first appear.
RECURSIVE GroupOrder(_, _, _)
GroupOrder(vs, ids, seen) ==
    IF ids = <<>> THEN <<>>
    ELSE LET c == vs[Head(ids)].youtuberId
         IN IF c \in seen THEN GroupOrder(vs, Tail(ids), seen)
            ELSE <<c>> \o GroupOrder(vs, Tail(ids), seen \cup {c})

RECURSIVE queueOrphans(_, _, _, _)
queueOrphans(S, groups, unanalyzed, jobsQueued) ==
    IF groups = <<>> THEN S
    ELSE LET c == Head(groups)
             vids == SelectSeq(unanalyzed, LAMBDA i : S.videos[i].youtuberId = c)
             n == Len(vids)
         IN IF isPipelineRunning(S.pstatus, c)
            THEN queueOrphans(S, Tail(groups), unanalyzed, jobsQueued)
            ELSE queueOrphans(
                    enqueueAnalysis(
                        [S EXCEPT !.pstatus = updatePipelineStatus(S.pstatus, c,
                            [status |-> "analyzing", totalVideos |-> n,
                             transcriptsFetched |-> n, videosAnalyzed |-> 0])],
                        c, vids, jobsQueued),
                    Tail(groups), unanalyzed, jobsQueued + n)

runStartupAnalysis(S, activeJobs) ==
    LET S1 == repairStuck(S, YouTuberList(S.youtubers, 1), activeJobs)
        unanalyzedVideos == Unanalyzed(S1.videos)
    IN IF unanalyzedVideos = <<>> THEN S1
       ELSE queueOrphans(S1, GroupOrder(S1.videos, unanalyzedVideos, {}),
                         unanalyzedVideos, 0)

\* startChannelPipeline(youtuberId), called by the HTTP routes.
InitialStatus ==
    [status |-> "syncing", totalVideos |-> 0, transcriptsFetched |-> 0,
     videosAnalyzed |-> 0]

startChannelPipeline(S, c) ==
    IF ~S.youtubers[c].exists THEN S
    ELSE addJob([S EXCEPT !.pstatus = updatePipelineStatus(S.pstatus, c, InitialStatus)],
                Job("sync-videos", c, 0), 0)

\* The variant of BullMQ's rule in which the attempts never run out.
ExhaustedNever(job) == FALSE

\* BullMQ after a handler threw: retry with exponential backoff while
\* attemptsMade < attempts, otherwise the job moves to the failed set.
Exhausted(job) == job.attemptsMade + 1 >= attempts

RetryOrFail(S, job) ==
    IF Exhausted(job) THEN S
    ELSE [S EXCEPT !.delayed = Append(@,
            <<[job EXCEPT !.attemptsMade = @ + 1],
              backoffDelay * Pow2(job.attemptsMade)>>)]

(* ------------------------------- actions ------------------------------- *)
\* The process after startServer: worker created, both Redis connections
\* and the database connected, no signal received.
ServerUp ==
    [pc |-> "up", workerClosed |-> FALSE, redisQuit |-> FALSE,
     queueConnectionClosed |-> FALSE, dbDisconnected |-> FALSE]

Store ==
    [youtubers |-> youtubers, videos |-> videos, pstatus |-> pstatus,
     waiting |-> waiting, delayed |-> delayed, batches |-> batches]

Commit(S) ==
    /\ youtubers' = S.youtubers
    /\ videos' = S.videos
    /\ pstatus' = S.pstatus
    /\ waiting' = S.waiting
    /\ delayed' = S.delayed
    /\ batches' = S.batches

Op(name, c, ok) == [op |-> name, c |-> c, ok |-> ok]

Spend(field, n) == budget' = [budget EXCEPT ![field] = @ - n]

StartChannelPipeline(c) ==
    /\ budget.events > 0
    /\ Commit(startChannelPipeline(Store, c))
    /\ Spend("events", 1)
    /\ last' = Op("start", c, youtubers[c].exists)
    /\ UNCHANGED <<sd, active, stalled, failedJobs, sweepRuns>>

\* The worker fetches the next job of the wait list.
TakeJob ==
    /\ Len(active) < concurrency
    /\ waiting # <<>>
    /\ active' = Append(active, Head(waiting))
    /\ waiting' = Tail(waiting)
    /\ last' = Op("take", Head(waiting).youtuberId, TRUE)
    /\ UNCHANGED <<sd, batches, youtubers, videos, pstatus, delayed, stalled, failedJobs,
                   sweepRuns, budget>>

Running(type) ==
    /\ active # <<>>
    /\ Head(active).type = type

ChannelVideos(c) == {e \in ExtIds : ChannelOf(e) = c}

\* An injected failure of the aggregation is an input only where the
\* handler reaches completePipeline.
FaultChoice(Sok, Sbad, ok) == ok \/ (Sok # Sbad /\ budget.events > 0)

SyncVideos ==
    /\ Running("sync-videos")
    /\ LET job == Head(active)
           c == job.youtuberId
       IN \E found \in SUBSET ChannelVideos(c), listOk \in BOOLEAN, aggOk \in BOOLEAN :
            /\ Cardinality(found) <= fetchLimit
            /\ listOk \/ (aggOk /\ budget.events > 0)
            /\ FaultChoice(processSyncVideos(Store, c, found, listOk, TRUE),
                           processSyncVideos(Store, c, found, listOk, FALSE), aggOk)
            /\ LET S1 == processSyncVideos(Store, c, found, listOk, aggOk)
                   threw == SyncThrows(Store, c, listOk)
               IN /\ Commit(IF threw THEN RetryOrFail(S1, job) ELSE S1)
                  /\ failedJobs' = IF threw /\ Exhausted(job)
                                   THEN failedJobs + 1 ELSE failedJobs
                  /\ Spend("events", IF listOk /\ aggOk THEN 0 ELSE 1)
                  /\ last' = Op("sync", c, ~threw)
    /\ active' = Tail(active)
    /\ UNCHANGED <<sd, stalled, sweepRuns>>

FetchTranscript ==
    /\ Running("fetch-transcript")
    /\ LET job == Head(active)
           others == Tail(active) \o stalled
       IN IF FetchThrows(Store, job)
          THEN /\ Commit(RetryOrFail(Store, job))
               /\ failedJobs' = IF Exhausted(job) THEN failedJobs + 1 ELSE failedJobs
               /\ last' = Op("fetch", job.youtuberId, FALSE)
               /\ UNCHANGED budget
          ELSE \E fetchOk \in BOOLEAN, aggOk \in BOOLEAN :
                /\ FaultChoice(processFetchTranscript(Store, job, others, fetchOk, TRUE),
                               processFetchTranscript(Store, job, others, fetchOk, FALSE),
                               aggOk)
                /\ Commit(processFetchTranscript(Store, job, others, fetchOk, aggOk))
                /\ Spend("events", IF aggOk THEN 0 ELSE 1)
                /\ last' = Op("fetch", job.youtuberId, TRUE)
                /\ UNCHANGED failedJobs
    /\ active' = Tail(active)
    /\ UNCHANGED <<sd, stalled, sweepRuns>>

AnalyzeVideo ==
    /\ Running("analyze-video")
    /\ LET job == Head(active)
       IN \E o \in AnalysisOutcomes(Min(1, budget.events)) :
            /\ NewPredictions(o) <= Min(1, budget.events)
            /\ o.fetchOk
            /\ o.extractOk \/ (NewPredictions(o) = 0 /\ budget.events > 0)
            /\ AnalyzeThrows(Store, job.videoId, o) => NewPredictions(o) = 0
            /\ job.videoId \in VideoIds(videos) /\ videos[job.videoId].transcript = Unavailable
                  => o.extractOk /\ NewPredictions(o) = 0
            /\ Commit(processAnalyzeVideo(Store, job, o))
            /\ Spend("events", NewPredictions(o) + (IF o.extractOk THEN 0 ELSE 1))
            /\ last' = Op("analyze", job.youtuberId,
                          ~AnalyzeThrows(Store, job.videoId, o))
    /\ active' = Tail(active)
    /\ UNCHANGED <<sd, stalled, failedJobs, sweepRuns>>

CompletePipeline ==
    /\ Running("complete-pipeline")
    /\ LET job == Head(active)
       IN \E aggOk \in BOOLEAN :
            /\ FaultChoice(completePipeline(Store, job.youtuberId, TRUE),
                           completePipeline(Store, job.youtuberId, FALSE), aggOk)
            /\ Commit(completePipeline(Store, job.youtuberId, aggOk))
            /\ Spend("events", IF aggOk THEN 0 ELSE 1)
            /\ last' = Op("complete", job.youtuberId,
                          aggOk /\ youtubers[job.youtuberId].exists)
    /\ active' = Tail(active)
    /\ UNCHANGED <<sd, stalled, failedJobs, sweepRuns>>

\* Time passes until the next delayed job is due; BullMQ moves the jobs
\* that are due to the wait list in the order of their timestamps.
MinDue == CHOOSE d \in {delayed[i][2] : i \in DOMAIN delayed} :
              \A i \in DOMAIN delayed : d <= delayed[i][2]

Promote ==
    /\ delayed # <<>>
    /\ LET due == SelectSeq(delayed, LAMBDA e : e[2] = MinDue)
           rest == SelectSeq(delayed, LAMBDA e : e[2] # MinDue)
       IN /\ waiting' = waiting \o [i \in DOMAIN due |-> due[i][1]]
          /\ delayed' = [i \in DOMAIN rest |-> <<rest[i][1], rest[i][2] - MinDue>>]
    /\ last' = Op("promote", 0, TRUE)
    /\ UNCHANGED <<sd, batches, youtubers, videos, pstatus, active, stalled, failedJobs,
                   sweepRuns, budget>>

\* DELETE /api/videos/:id
DeleteVideo(v) ==
    /\ budget.events > 0
    /\ v \in VideoIds(videos)
    /\ videos' = [videos EXCEPT ![v].deleted = TRUE]
    /\ Spend("events", 1)
    /\ last' = Op("delete", videos[v].youtuberId, TRUE)
    /\ UNCHANGED <<sd, batches, youtubers, pstatus, waiting, delayed, active, stalled,
                   failedJobs, sweepRuns>>

\* forceStartAnalysis(youtuberId), exported for stuck pipelines.
ForceStartAnalysis(c) ==
    /\ budget.events > 0
    /\ Commit(forceStartAnalysis(Store, c))
    /\ Spend("events", 1)
    /\ last' = Op("force", c, youtubers[c].exists)
    /\ UNCHANGED <<sd, active, stalled, failedJobs, sweepRuns>>

\* The first creator the sweep finds stuck in the transcript phase (0: none).
FirstStuck ==
    LET stuck == {c \in Creators : youtubers[c].exists
                                   /\ IsStuck(Store, c, active \o stalled)}
    IN IF stuck = {} THEN 0 ELSE CHOOSE c \in stuck : \A d \in stuck : c <= d

\* runStartupAnalysis(), exported; startServer does not call it.
RunStartupAnalysis ==
    /\ budget.sweeps > 0
    /\ Commit(runStartupAnalysis(Store, active \o stalled))
    /\ sweepRuns' = sweepRuns + 1
    /\ Spend("sweeps", 1)
    /\ last' = Op("sweep", FirstStuck, TRUE)
    /\ UNCHANGED <<sd, active, stalled, failedJobs>>

\* The process dies and is started again (startServer: connect, create the
\* worker, listen). A job the dead process was working on stays in the
\* active list until the new worker finds it stalled.
Restart ==
    /\ budget.events > 0
    /\ stalled' = stalled \o active
    /\ active' = <<>>
    /\ sweepRuns' = 0
    /\ Spend("events", 1)
    /\ last' = Op("restart", 0, TRUE)
    /\ UNCHANGED <<sd, batches, youtubers, videos, pstatus, waiting, delayed, failedJobs>>

\* The process dies inside startChannelPipeline, after the status document
\* is written and before the sync job is added, and is started again.
RestartDuringStart(c) ==
    /\ budget.events > 1
    /\ youtubers[c].exists
    /\ pstatus' = updatePipelineStatus(pstatus, c, InitialStatus)
    /\ stalled' = stalled \o active
    /\ active' = <<>>
    /\ sweepRuns' = 0
    /\ Spend("events", 2)
    /\ last' = Op("restart-start", c, TRUE)
    /\ UNCHANGED <<sd, batches, youtubers, videos, waiting, delayed, failedJobs>>

\* The process dies inside processSyncVideos, after the status document
\* says fetching-transcripts and before any job is added, and is started again.
RestartDuringSync ==
    /\ budget.events > 0
    /\ Running("sync-videos")
    /\ LET c == Head(active).youtuberId
       IN \E found \in SUBSET ChannelVideos(c) :
            /\ ~SyncThrows(Store, c, TRUE)
            /\ videos' = syncChannelVideos(Store, c, found).videos
            /\ pstatus' = updatePipelineStatus(pstatus, c,
                  [status |-> "fetching-transcripts",
                   totalVideos |-> Min(Cardinality(found), maxVideosToProcess)])
            /\ last' = Op("restart-sync", c, TRUE)
    /\ stalled' = stalled \o active
    /\ active' = <<>>
    /\ sweepRuns' = 0
    /\ Spend("events", 1)
    /\ UNCHANGED <<sd, batches, youtubers, waiting, delayed, failedJobs>>

\* The worker's stalled-job check puts the jobs of a dead process back at
\* the head of the wait list.
RecoverStalled ==
    /\ stalled # <<>>
    /\ waiting' = stalled \o waiting
    /\ stalled' = <<>>
    /\ last' = Op("recover", 0, TRUE)
    /\ UNCHANGED <<sd, batches, youtubers, videos, pstatus, delayed, active, failedJobs,
                   sweepRuns, budget>>

Init ==
    /\ youtubers \in {[c \in Creators |-> NewYouTuber(c \in E)] :
                        E \in {X \in SUBSET Creators : 1 \in X}}
    /\ videos = <<>>
    /\ pstatus = [c \in Creators |-> NoStatus]
    /\ waiting = <<>>
    /\ delayed = <<>>
    /\ active = <<>>
    /\ stalled = <<>>
    /\ failedJobs = 0
    /\ sweepRuns = 0
    /\ batches = 0
    /\ sd = ServerUp
    /\ budget = [events |-> MaxEvents, sweeps |-> MaxSweeps]
    /\ last = Op("init", 0, TRUE)

Next ==
    \/ \E c \in Creators : StartChannelPipeline(c)
    \/ TakeJob
    \/ SyncVideos
    \/ FetchTranscript
    \/ AnalyzeVideo
    \/ CompletePipeline
    \/ Promote
    \/ \E v \in 1..Len(videos) : DeleteVideo(v)
    \/ \E c \in Creators : ForceStartAnalysis(c)
    \/ RunStartupAnalysis
    \/ Restart
    \/ \E c \in Creators : RestartDuringStart(c)
    \/ RestartDuringSync
    \/ RecoverStalled

Spec == Init /\ [][Next]_vars

\* The pipeline of one registered creator under repeated failures of the
\* platform: no restart, sweep or administrative call, and an event budget
\* that lets one sync-videos job use up all its attempts.
MaxRetryEvents == 4

SyncRetryInit ==
    /\ youtubers = [c \in Creators |-> NewYouTuber(c = 1)]
    /\ videos = <<>>
    /\ pstatus = [c \in Creators |-> NoStatus]
    /\ waiting = <<>>
    /\ delayed = <<>>
    /\ active = <<>>
    /\ stalled = <<>>
    /\ failedJobs = 0
    /\ sweepRuns = 0
    /\ batches = 0
    /\ sd = ServerUp
    /\ budget = [events |-> MaxRetryEvents, sweeps |-> 0]
    /\ last = Op("init", 0, TRUE)

SyncRetryNext ==
    \/ \E c \in Creators : StartChannelPipeline(c)
    \/ TakeJob
    \/ SyncVideos
    \/ FetchTranscript
    \/ AnalyzeVideo
    \/ CompletePipeline
    \/ Promote

SyncRetrySpec == SyncRetryInit /\ [][SyncRetryNext]_vars

(* ---------------------- creators with earlier rows --------------------- *)
\* The ids of X in ascending order.
RECURSIVE Ascending(_)
Ascending(X) ==
    IF X = {} THEN <<>>
    ELSE LET m == CHOOSE x \in X : \A y \in X : x <= y
         IN <<m>> \o Ascending(X \ {m})

\* Video rows left by earlier activity: videos synced, some with their
\* transcript fetched, none analyzed yet.
EarlierRows ==
    UNION {{[i \in 1..Cardinality(X) |->
                [NewVideo(ChannelOf(Ascending(X)[i]), Ascending(X)[i])
                    EXCEPT !.transcript = t[Ascending(X)[i]]]] :
             t \in [X -> {NoTranscript, RealTranscript}]} :
           X \in SUBSET ExtIds}

\* Both creators are registered and own rows from earlier activity; the
\* status documents of that time have expired (24 h) and the queue is empty.
MaxLaterEvents == 1

EarlierRunsInit ==
    /\ youtubers = [c \in Creators |-> NewYouTuber(TRUE)]
    /\ videos \in EarlierRows
    /\ pstatus = [c \in Creators |-> NoStatus]
    /\ waiting = <<>>
    /\ delayed = <<>>
    /\ active = <<>>
    /\ stalled = <<>>
    /\ failedJobs = 0
    /\ sweepRuns = 0
    /\ batches = 0
    /\ sd = ServerUp
    /\ budget = [events |-> MaxLaterEvents, sweeps |-> MaxSweeps]
    /\ last = Op("init", 0, TRUE)

EarlierRunsNext ==
    \/ \E c \in Creators : StartChannelPipeline(c)
    \/ TakeJob
    \/ SyncVideos
    \/ FetchTranscript
    \/ AnalyzeVideo
    \/ CompletePipeline
    \/ Promote
    \/ \E c \in Creators : ForceStartAnalysis(c)
    \/ RunStartupAnalysis

EarlierRunsSpec == EarlierRunsInit /\ [][EarlierRunsNext]_vars

(* --------------------------- the fair worker --------------------------- *)
\* One registered creator, no restart and no sweep: requests and video
\* deletions from outside, and a worker that keeps running. A job in the
\* wait list is eventually taken, a handler that was invoked eventually
\* returns or throws, and a delayed job eventually becomes due.
FairWorkerInit ==
    /\ youtubers = [c \in Creators |-> NewYouTuber(c = 1)]
    /\ videos = <<>>
    /\ pstatus = [c \in Creators |-> NoStatus]
    /\ waiting = <<>>
    /\ delayed = <<>>
    /\ active = <<>>
    /\ stalled = <<>>
    /\ failedJobs = 0
    /\ sweepRuns = 0
    /\ batches = 0
    /\ sd = ServerUp
    /\ budget = [events |-> MaxEvents, sweeps |-> 0]
    /\ last = Op("init", 0, TRUE)

FairWorkerNext ==
    \/ \E c \in Creators : StartChannelPipeline(c)
    \/ TakeJob
    \/ SyncVideos
    \/ FetchTranscript
    \/ AnalyzeVideo
    \/ CompletePipeline
    \/ Promote
    \/ \E v \in 1..Len(videos) : DeleteVideo(v)

\* The single worker keeps fetching jobs and the queue keeps promoting
\* delayed jobs that are due; every handler invocation ends (it returns or
\* throws), so the active list is empty again and again.
WorkerFairness ==
    /\ WF_vars(TakeJob)
    /\ WF_vars(Promote)
    /\ []<>(active = <<>>)

FairWorkerSpec == FairWorkerInit /\ [][FairWorkerNext]_vars /\ WorkerFairness

(* ------------------------------ shutdown ------------------------------- *)
\* shutdown(), the handler of SIGINT and SIGTERM. Each step is in a
\* try/catch of its own: ok = FALSE is a step that threw.
Signal ==
    /\ sd.pc = "up"
    /\ sd' = [sd EXCEPT !.pc = "signalled"]
    /\ last' = Op("signal", 0, TRUE)
    /\ UNCHANGED <<youtubers, videos, pstatus, waiting, delayed, active, stalled,
                   failedJobs, sweepRuns, batches, budget>>

\* getActiveCount and getWaitingCount returned; pipelineWorker.close() is
\* called and the worker takes no further job.
CallWorkerClose ==
    /\ sd.pc = "signalled"
    /\ sd' = [sd EXCEPT !.pc = "closing"]
    /\ last' = Op("close-called", 0, TRUE)
    /\ UNCHANGED <<youtubers, videos, pstatus, waiting, delayed, active, stalled,
                   failedJobs, sweepRuns, batches, budget>>

\* pipelineWorker.close() resolves once no job is active.
WorkerCloseReturns ==
    /\ sd.pc = "closing"
    /\ active = <<>>
    /\ sd' = [sd EXCEPT !.pc = "redis", !.workerClosed = TRUE]
    /\ last' = Op("worker-closed", 0, TRUE)
    /\ UNCHANGED <<youtubers, videos, pstatus, waiting, delayed, active, stalled,
                   failedJobs, sweepRuns, batches, budget>>

\* Something in the first try block threw (the import, a count, close()).
WorkerCloseThrows ==
    /\ sd.pc \in {"signalled", "closing"}
    /\ sd' = [sd EXCEPT !.pc = "redis"]
    /\ last' = Op("worker-closed", 0, FALSE)
    /\ UNCHANGED <<youtubers, videos, pstatus, waiting, delayed, active, stalled,
                   failedJobs, sweepRuns, batches, budget>>

\* redis.quit(): the main client; bullmqConnection is not touched.
QuitRedis ==
    /\ sd.pc = "redis"
    /\ \E ok \in BOOLEAN :
         /\ sd' = [sd EXCEPT !.pc = "db", !.redisQuit = ok]
         /\ last' = Op("redis-quit", 0, ok)
    /\ UNCHANGED <<youtubers, videos, pstatus, waiting, delayed, active, stalled,
                   failedJobs, sweepRuns, batches, budget>>

\* prisma.$disconnect()
DisconnectDatabase ==
    /\ sd.pc = "db"
    /\ \E ok \in BOOLEAN :
         /\ sd' = [sd EXCEPT !.pc = "exiting", !.dbDisconnected = ok]
         /\ last' = Op("db-disconnect", 0, ok)
    /\ UNCHANGED <<youtubers, videos, pstatus, waiting, delayed, active, stalled,
                   failedJobs, sweepRuns, batches, budget>>

\* process.exit(0): the sockets still open go with the process; a job the
\* worker was still processing stays in the active list.
ProcessExit ==
    /\ sd.pc = "exiting"
    /\ sd' = [sd EXCEPT !.pc = "exited", !.queueConnectionClosed = TRUE]
    /\ stalled' = stalled \o active
    /\ active' = <<>>
    /\ last' = Op("exit", 0, TRUE)
    /\ UNCHANGED <<youtubers, videos, pstatus, waiting, delayed, failedJobs,
                   sweepRuns, batches, budget>>

\* Requests are served until the signal, the worker takes jobs until
\* close() is called, and a handler can write its status while the main
\* Redis client is open.
Serving == sd.pc = "up"

Accepting == sd.pc \in {"up", "signalled"}

RedisOpen == sd.pc \in {"up", "signalled", "closing"}

ShutdownNext ==
    \/ \E c \in Creators : Serving /\ StartChannelPipeline(c)
    \/ Accepting /\ TakeJob
    \/ RedisOpen /\ SyncVideos
    \/ RedisOpen /\ FetchTranscript
    \/ RedisOpen /\ AnalyzeVideo
    \/ RedisOpen /\ CompletePipeline
    \/ RedisOpen /\ Promote
    \/ Signal
    \/ CallWorkerClose
    \/ WorkerCloseReturns
    \/ WorkerCloseThrows
    \/ QuitRedis
    \/ DisconnectDatabase
    \/ ProcessExit

ShutdownSpec == Init /\ [][ShutdownNext]_vars

(* ------------------------- vocabulary of the claims --------------------- *)
DelayedJobs == [i \in DOMAIN delayed |-> delayed[i][1]]

\* Every job that has not finished: waiting, delayed, being processed, or
\* left in the active list by a dead process.
Outstanding == waiting \o DelayedJobs \o active \o stalled

JobsFor(js, type, c) ==
    {i \in DOMAIN js : js[i].type = type /\ js[i].youtuberId = c}

PhaseRank(s) ==
    CASE s = "idle" -> 0
      [] s = "syncing" -> 1
      [] s = "fetching-transcripts" -> 2
      [] s = "analyzing" -> 3
      [] OTHER -> 4

MovesForward(a, b) ==
    \/ b = "failed"
    \/ a \notin {"completed", "failed"} /\ PhaseRank(a) < PhaseRank(b)
    \/ a = "failed" /\ b = "completed"

\* C1: a creator's status only moves forward through syncing,
\* fetching-transcripts, analyzing, completed, or goes to failed; it never
\* returns from completed or failed to a running value. Steps of
\* forceStartAnalysis and of the sweep are excepted, and so is the reset to
\* syncing by a new call of startChannelPipeline, which leaves the steps of
\* the worker's handlers.
C1_PhaseMonotonic ==
    [][\A c \in Creators :
          pstatus'[c].status # pstatus[c].status
            => \/ MovesForward(pstatus[c].status, pstatus'[c].status)
               \/ last'.op \in {"force", "sweep", "start", "restart-start"}]_vars

\* C2: no outstanding fetch-transcript job refers to a video whose
\* transcript is the unavailable placeholder.
C2_NoFetchJobForUnavailable ==
    \A i \in DOMAIN Outstanding :
        LET job == Outstanding[i]
        IN job.type = "fetch-transcript" /\ job.videoId \in VideoIds(videos)
             => videos[job.videoId].transcript # Unavailable

\* The un-analyzed videos of a creator whose transcript is a real one.
Usable(c) ==
    {i \in VideosOf(videos, c) :
        videos[i].transcript = RealTranscript /\ ~videos[i].analyzed}

\* A sync or fetch handler ended the transcript phase of creator c.
TranscriptPhaseEnds(c) ==
    /\ last'.op \in {"sync", "fetch"}
    /\ last'.c = c
    /\ last'.ok
    /\ pstatus[c].status \in {"syncing", "fetching-transcripts"}
    /\ pstatus'[c].status \in {"analyzing", "completed"}

\* C3: when the transcript phase of a creator ends, the number of
\* analyze-video jobs enqueued is the number of its un-analyzed videos with
\* a usable transcript (at most maxVideosToProcess); a video holding the
\* unavailable placeholder gets no analyze-video job.
C3_AnalyzeJobsMatchUsable ==
    [][\A c \in Creators :
          TranscriptPhaseEnds(c)
            => Cardinality(JobsFor(Outstanding', "analyze-video", c))
                 - Cardinality(JobsFor(Outstanding, "analyze-video", c))
               = Min(Cardinality(Usable(c)'), maxVideosToProcess)]_vars

\* The precondition of the recovery sweep for creator c: the status
\* document says fetching-transcripts and no fetch-transcript job of the
\* creator is left anywhere in the queue.
StuckInTranscripts(c) ==
    /\ youtubers[c].exists
    /\ pstatus[c].set
    /\ pstatus[c].status = "fetching-transcripts"
    /\ JobsFor(Outstanding, "fetch-transcript", c) = {}

SweepStep == last'.op = "sweep" /\ sweepRuns' = sweepRuns + 1

NewJobs(type, c) ==
    Cardinality(JobsFor(Outstanding', type, c))
      - Cardinality(JobsFor(Outstanding, type, c))

C5_NoRunningStatusWithoutJob ==
    last.op = "sweep"
      => \A c \in Creators :
            youtubers[c].exists /\ isPipelineRunning(pstatus, c)
              => \E i \in DOMAIN Outstanding : Outstanding[i].youtuberId = c

\* C6: when the process has started, runStartupAnalysis has run exactly once.
C6_SweepRunsOnceAtStartup ==
    last.op \in {"restart", "restart-start", "restart-sync"} => sweepRuns = 1

\* C10: startChannelPipeline is idempotent: a second call for the same
\* creator right after the first leaves the status document and the queue
\* as the first call left them.
C10_StartIsIdempotent ==
    [][(/\ last.op = "start" /\ last.ok
        /\ last'.op = "start" /\ last'.c = last.c)
          => pstatus' = pstatus /\ Outstanding' = Outstanding]_vars

\* C7: an analyze-video handler whose analysis throws leaves the status
\* document and the rest of the queue as they were (the job is neither
\* retried nor moved to the failed set), and a complete-pipeline handler
\* whose aggregation succeeds ends with status completed and videosAnalyzed
\* equal to the number of analyzed videos of the creator.
C7_AnalysisFailureTolerated ==
    [][/\ (last'.op = "analyze" /\ ~last'.ok)
            => /\ pstatus' = pstatus
               /\ waiting' = waiting
               /\ delayed' = delayed
               /\ failedJobs' = failedJobs
               /\ active' = Tail(active)
       /\ (last'.op = "complete" /\ last'.ok)
            => /\ pstatus'[last'.c].status = "completed"
               /\ pstatus'[last'.c].videosAnalyzed =
                    Cardinality({i \in VideosOf(videos', last'.c) : videos'[i].analyzed})]_vars

\* The pipeline of a creator with two videos completed although the
\* analysis of one of them threw: one video analyzed, the other one left
\* un-analyzed with its transcript and without a job.
C7_Witness ==
    /\ last.op = "complete"
    /\ last.ok
    /\ failedJobs = 0
    /\ pstatus[last.c].status = "completed"
    /\ pstatus[last.c].videosAnalyzed = 1
    /\ Cardinality(VideosOf(videos, last.c)) = 2
    /\ \E i \in VideosOf(videos, last.c) :
          /\ videos[i].transcript = RealTranscript
          /\ ~videos[i].analyzed
          /\ \A k \in DOMAIN Outstanding :
                ~(Outstanding[k].type = "analyze-video" /\ Outstanding[k].videoId = i)

\* C8: no two Video rows carry the same external video id.
C8_NoDuplicateVideoRows ==
    \A i, j \in VideoIds(videos) :
        videos[i].videoId = videos[j].videoId => i = j

\* A sync of the whole channel has just succeeded while a row of the
\* channel already carried a transcript, that is, a re-sync met a row of an
\* earlier sync.
C8_Witness ==
    /\ last.op = "sync"
    /\ last.ok
    /\ last.c \in Creators
    /\ pstatus[last.c].totalVideos = Cardinality(ChannelVideos(last.c))
    /\ Cardinality(VideosOf(videos, last.c)) = Cardinality(ChannelVideos(last.c))
    /\ \E i \in VideosOf(videos, last.c) : videos[i].transcript # NoTranscript

\* acc is num / den as a percentage in hundredths, rounded to the nearest
\* hundredth (0 when den is 0).
IsPercentOf(acc, num, den) ==
    IF den = 0 THEN acc = 0
    ELSE /\ 2 * (acc * den - 10000 * num) <= den
         /\ 2 * (10000 * num - acc * den) <= den

AllRows(c) ==
    SumOver(VideosOf(videos, c),
            [i \in DOMAIN videos |->
                videos[i].unverified + videos[i].wrong + videos[i].correct])

CorrectRows(c) ==
    SumOver(VideosOf(videos, c), [i \in DOMAIN videos |-> videos[i].correct])

ScoredRowsOfAnalyzed(c) ==
    SumOver({i \in VideosOf(videos, c) : videos[i].analyzed},
            [i \in DOMAIN videos |-> videos[i].wrong + videos[i].correct])

CorrectRowsOfAnalyzed(c) ==
    SumOver({i \in VideosOf(videos, c) : videos[i].analyzed},
            [i \in DOMAIN videos |-> videos[i].correct])

C11_DuplicateAnalysisChangesNothing ==
    [][(/\ last'.op = "analyze"
        /\ Running("analyze-video")
        /\ Head(active).videoId \in VideoIds(videos)
        /\ videos[Head(active).videoId].analyzed)
          => videos' = videos /\ youtubers' = youtubers]_vars

\* C12: a sync-videos handler that finds no video for a creator without
\* transcript-less and without un-analyzed videos enqueues no job, and
\* (the aggregation succeeding) ends with status completed and
\* totalVideos = 0.
C12_EmptySyncCompletes ==
    [][\A c \in Creators :
          (/\ last'.op = "sync" /\ last'.c = c /\ last'.ok
           /\ pstatus'[c].totalVideos = 0
           /\ WithoutTranscript(videos, c) = {}
           /\ ToAnalyze(videos, c) = {}
           /\ budget' = budget)
            => /\ NewJobs("fetch-transcript", c) = 0
               /\ NewJobs("analyze-video", c) = 0
               /\ NewJobs("complete-pipeline", c) = 0
               /\ videos' = videos
               /\ pstatus'[c].status = "completed"]_vars

\* The sync of a creator without videos has just completed the pipeline.
C12_Witness ==
    /\ last.op = "sync"
    /\ last.ok
    /\ last.c \in Creators
    /\ VideosOf(videos, last.c) = {}
    /\ pstatus[last.c].status = "completed"
    /\ pstatus[last.c].totalVideos = 0
    /\ \A i \in DOMAIN Outstanding : Outstanding[i].youtuberId # last.c

AnalyzeJobsOf(js, v) ==
    {i \in DOMAIN js : js[i].type = "analyze-video" /\ js[i].videoId = v}

\* C13: a second run of the sweep right after the first enqueues nothing
\* and changes no video row and no status, and the sweep gives no video a
\* second analyze-video job.
C13_SweepTwiceAddsNothing ==
    [][SweepStep
         => LET busy == active \o stalled
                S1 == runStartupAnalysis(Store, busy)
                after == S1.waiting \o [i \in DOMAIN S1.delayed |-> S1.delayed[i][1]]
                           \o busy
            IN /\ runStartupAnalysis(S1, busy) = S1
               /\ \A v \in DOMAIN videos :
                     Cardinality(AnalyzeJobsOf(after, v))
                        > Cardinality(AnalyzeJobsOf(Outstanding, v))
                       => Cardinality(AnalyzeJobsOf(after, v)) = 1]_vars

\* The sync-videos jobs outstanding for creator c.
SyncJobsOf(js, c) == JobsFor(js, "sync-videos", c)

RequeuedWithBackoff(job) ==
    \E i \in DOMAIN delayed' :
        delayed'[i] = <<[job EXCEPT !.attemptsMade = @ + 1],
                        5000 * Pow2(job.attemptsMade)>>

\* C15: the first attempt of a fetch-transcript job never writes the
\* unavailable placeholder (a failed fetch is retried instead), and an
\* analyze-video job whose handler met an error is put back in the queue
\* with backoff.
C15_TransientFailureRetried ==
    [][LET job == Head(active)
           v == job.videoId
       IN /\ (/\ Running("fetch-transcript") /\ last'.op = "fetch"
              /\ job.attemptsMade = 0
              /\ v \in VideoIds(videos)
              /\ videos[v].transcript = NoTranscript)
                => videos'[v].transcript # Unavailable
          /\ (/\ Running("analyze-video") /\ last'.op = "analyze"
              /\ ~last'.ok
              /\ v \in VideoIds(videos))
                => RequeuedWithBackoff(job)]_vars

\* C16: forceStartAnalysis(c) leaves no video of c with a null transcript
\* and enqueues exactly the jobs queueAnalysisJobs(c) enqueues on the video
\* rows it leaves behind.
C16_ForceEqualsQueueAnalysis ==
    [][\A c \in Creators :
          (last'.op = "force" /\ last'.c = c /\ last'.ok)
            => LET after == [Store EXCEPT !.videos = videos']
                   normal == queueAnalysisJobs(after, c, TRUE)
               IN /\ WithoutTranscript(videos', c) = {}
                  /\ waiting' = normal.waiting
                  /\ delayed' = normal.delayed]_vars

\* The fetch-transcript jobs of creator c that have not finished, besides
\* the one being processed: waiting, delayed (stagger or backoff), or active.
OtherFetchJobs(c) ==
    JobsFor(waiting \o DelayedJobs \o Tail(active) \o stalled,
            "fetch-transcript", c)

\* C18: a fetch-transcript handler that finishes enqueues the analysis
\* phase of its creator (seen by the completion job it adds when there is
\* a video to analyze) exactly when no other fetch-transcript job of the
\* creator is waiting, delayed or active.
C18_AdvanceIffLastFetchJob ==
    [][\A c \in Creators :
          (/\ Running("fetch-transcript") /\ Head(active).youtuberId = c
           /\ last'.op = "fetch" /\ last'.ok
           /\ ToAnalyze(videos', c) # {})
            => (NewJobs("complete-pipeline", c) = 1 <=> OtherFetchJobs(c) = {})]_vars

\* C19: in one pipeline run of a creator (one start, nothing else from
\* outside) at most one complete-pipeline job is enqueued and no video has
\* more than one analyze-video job.
C19_AnalysisPhaseEnqueuedOnce ==
    (/\ budget = [events |-> MaxEvents - 1, sweeps |-> MaxSweeps]
     /\ failedJobs = 0)
      => \A c \in Creators :
            /\ Cardinality(JobsFor(Outstanding, "complete-pipeline", c)) <= 1
            /\ \A v \in DOMAIN videos :
                  Cardinality(AnalyzeJobsOf(Outstanding, v)) <= 1

\* The analyze-video jobs of batch b that have not finished.
SiblingsOf(b) ==
    {i \in DOMAIN Outstanding :
        Outstanding[i].type = "analyze-video" /\ Outstanding[i].batch = b}

\* C20: while the worker processes a complete-pipeline job, no
\* analyze-video job enqueued by the same call is waiting, delayed or active.
C20_CompletionAfterSiblings ==
    Running("complete-pipeline") => SiblingsOf(Head(active).batch) = {}

\* C17: the shutdown handler closes the queue's Redis connection after
\* pipelineWorker.close() has returned or thrown and before it disconnects
\* the database and exits, and it goes on to the next step whether or not a
\* step threw.
C17_ShutdownClosesQueueConnection ==
    /\ sd.queueConnectionClosed => sd.pc \notin {"up", "signalled", "closing"}
    /\ sd.pc \in {"db", "exiting", "exited"} => sd.queueConnectionClosed
    /\ sd.dbDisconnected => sd.pc \in {"exiting", "exited"}

\* C21: the sweep leaves alone a creator whose status is
\* fetching-transcripts and that still has a fetch-transcript job waiting,
\* delayed or active: no transcript of its videos is rewritten, its status
\* stays, and no analyze-video job is added for it.
C21_SweepSparesCreatorWithFetchJob ==
    [][\A c \in Creators :
          (/\ SweepStep
           /\ pstatus[c].set /\ pstatus[c].status = "fetching-transcripts"
           /\ JobsFor(Outstanding, "fetch-transcript", c) # {})
            => /\ \A v \in VideosOf(videos, c) :
                     videos'[v].transcript = videos[v].transcript
               /\ pstatus'[c] = pstatus[c]
               /\ NewJobs("analyze-video", c) = 0]_vars

\* The store the second part of the sweep starts from: the first part
\* (the repair of stuck creators) has run.
OrphanBase ==
    repairStuck(Store, YouTuberList(youtubers, 1), active \o stalled)

\* The videos of creator c among the rows the second part of the sweep reads.
OrphansOf(S, c) ==
    LET rows == Unanalyzed(S.videos)
    IN {rows[i] : i \in {k \in DOMAIN rows : S.videos[rows[k]].youtuberId = c}}

\* What the second part of the sweep added: jobs with their delays (0 for
\* a job that went to the wait list).
AddedBySweep(S) ==
    [i \in 1..(Len(waiting') - Len(S.waiting)) |->
        <<waiting'[Len(S.waiting) + i], 0>>]
      \o SubSeq(delayed', Len(S.delayed) + 1, Len(delayed'))

AddedFor(added, type, c) ==
    {i \in DOMAIN added : added[i][1].type = type /\ added[i][1].youtuberId = c}

\* C22: the second part of the sweep adds no job for a creator whose
\* status is syncing, fetching-transcripts or analyzing; for any other
\* creator with un-analyzed videos that have a transcript it sets the
\* status to analyzing and adds one analyze-video job per such video and
\* one complete-pipeline job with a delay above all of theirs.
C22_OrphanSweepSkipsRunning ==
    [][SweepStep
         => LET S1 == OrphanBase
                added == AddedBySweep(S1)
            IN \A c \in Creators :
                 LET orphans == OrphansOf(S1, c)
                     aJobs == AddedFor(added, "analyze-video", c)
                     cJobs == AddedFor(added, "complete-pipeline", c)
                     running == /\ S1.pstatus[c].set
                                /\ S1.pstatus[c].status \in
                                     {"syncing", "fetching-transcripts", "analyzing"}
                 IN /\ running
                       => /\ \A i \in DOMAIN added : added[i][1].youtuberId # c
                          /\ pstatus'[c] = S1.pstatus[c]
                    /\ (~running /\ orphans # {})
                       => /\ pstatus'[c].status = "analyzing"
                          /\ {added[i][1].videoId : i \in aJobs} = orphans
                          /\ Cardinality(aJobs) = Cardinality(orphans)
                          /\ Cardinality(cJobs) = 1
                          /\ \A i \in cJobs : \A j \in aJobs :
                                added[i][2] > added[j][2]]_vars

\* The sweep found no stuck creator and re-opened a creator that had been
\* completed with an un-analyzed video left.
C22_Witness ==
    /\ last.op = "sweep" /\ last.c = 0
    /\ budget.events = MaxEvents - 1
    /\ \E c \in Creators :
         /\ pstatus[c].status = "analyzing" /\ pstatus[c].completedAt
         /\ pstatus[c].videosAnalyzed = 0
         /\ AnalyzedOf(videos, c) # {}
         /\ delayed # <<>>
         /\ delayed[Len(delayed)][1].type = "complete-pipeline"
         /\ delayed[Len(delayed)][1].youtuberId = c
         /\ delayed[Len(delayed)][1].batch = batches

FetchJobsOf(js, v) ==
    {i \in DOMAIN js : js[i].type = "fetch-transcript" /\ js[i].videoId = v}

\* C23: when the handler of a fetch-transcript job returns, the video holds
\* the fetched transcript or the unavailable placeholder; a transcript that
\* is set is never cleared, and a sync adds no fetch-transcript job for a
\* video whose transcript is set.
C23_FetchLeavesTranscriptSet ==
    [][/\ (Running("fetch-transcript") /\ last'.op = "fetch" /\ last'.ok)
            => /\ Head(active).videoId \in VideoIds(videos')
               /\ videos'[Head(active).videoId].transcript
                     \in {RealTranscript, Unavailable}
       /\ \A v \in DOMAIN videos :
             videos[v].transcript # NoTranscript
               => /\ videos'[v].transcript # NoTranscript
                  /\ last'.op = "sync"
                       => Cardinality(FetchJobsOf(Outstanding', v))
                            <= Cardinality(FetchJobsOf(Outstanding, v))]_vars

\* A second sync of a creator ran, with no sweep before it, after a failed
\* fetch left the placeholder, and the video has no fetch-transcript job.
C23_Witness ==
    /\ last.op = "sync" /\ last.ok
    /\ budget.sweeps = MaxSweeps
    /\ \E v \in VideoIds(videos) :
         /\ videos[v].youtuberId = last.c
         /\ videos[v].transcript = Unavailable
         /\ FetchJobsOf(Outstanding, v) = {}

SameFraction(a, b) == a[1] * b[2] = b[1] * a[2]

\* The creator's stored scores are what the aggregation over the rows gives.
AggregatesCurrent(ys, vs, c) ==
    /\ SameFraction(ys[c].avgScore, AvgVideoScore(vs, c))
    /\ ys[c].totalPredictions = ScoredPredictions(vs, c)
    /\ ys[c].correctPredictions = CorrectPredictions(vs, c)
    /\ ys[c].accuracyPercent
         = AccuracyPercent(CorrectPredictions(vs, c), ScoredPredictions(vs, c))

\* C24: after an analyze-video run that marks its video analyzed, with a
\* real transcript or with the unavailable placeholder, the creator's
\* avgScore, totalPredictions, correctPredictions and accuracyPercent equal
\* the aggregation over its analyzed videos and their predictions.
C24_AggregatesRecomputedOnAnalysis ==
    [][(/\ Running("analyze-video") /\ last'.op = "analyze" /\ last'.ok
        /\ Head(active).videoId \in VideoIds(videos')
        /\ videos'[Head(active).videoId].analyzed)
         => AggregatesCurrent(youtubers', videos', Head(active).youtuberId)]_vars

\* C25: a complete-pipeline handler leaves the status completed, with
\* videosAnalyzed the number of analyzed videos and completedAt set, when
\* the aggregation succeeded, and failed with the error recorded when it
\* threw; the job is neither re-queued nor moved to the failed set.
C25_CompletionEndsCompletedOrFailed ==
    [][(Running("complete-pipeline") /\ last'.op = "complete")
         => LET c == Head(active).youtuberId
            IN /\ IF last'.ok
                  THEN /\ pstatus'[c].status = "completed"
                       /\ pstatus'[c].videosAnalyzed
                             = Cardinality(AnalyzedOf(videos', c))
                       /\ pstatus'[c].completedAt
                  ELSE /\ pstatus'[c].status = "failed"
                       /\ pstatus'[c].error
               /\ waiting' = waiting
               /\ delayed' = delayed
               /\ failedJobs' = failedJobs
               /\ active' = Tail(active)]_vars

\* The aggregation of a completion job threw.
C25_Witness ==
    /\ last.op = "complete" /\ ~last.ok
    /\ pstatus[last.c].status = "failed"
    /\ pstatus[last.c].error

\* C26: no video has more than one fetch-transcript job waiting, delayed
\* or active.
C26_OneFetchJobPerVideo ==
    \A v \in DOMAIN videos : Cardinality(FetchJobsOf(Outstanding, v)) <= 1

\* The jobs a step added, in the order they were added to each list, with
\* their delays.
Added == AddedBySweep(Store)

\* The delays of the added jobs of a type and a batch (0: no batch).
DelaysOf(added, type, b) ==
    LET js == SelectSeq(added, LAMBDA e : e[1].type = type /\ e[1].batch = b)
    IN [i \in DOMAIN js |-> js[i][2]]

\* The i-th delay (i from 0) is (q + i) * spacing.
Staggered(ds, q, spacing) ==
    \A i \in DOMAIN ds : ds[i] = (q + i - 1) * spacing

\* The analyze-video jobs the second part of the sweep added for the
\* batches before b.
QueuedBefore(added, firstBatch, b) ==
    Cardinality({i \in DOMAIN added :
                    /\ added[i][1].type = "analyze-video"
                    /\ added[i][1].batch >= firstBatch
                    /\ added[i][1].batch < b})

EnqueueStep == last'.op \in {"sync", "fetch", "force", "sweep"}

\* C27 as stated: the i-th fetch-transcript job of a sync has delay
\* i * 2000, and in every batch of analysis jobs the i-th analyze-video job
\* has delay i * 3000 and the completion job count * 3000 + 5000, above all
\* of them.
C27_DelayIsIndexTimesSpacing ==
    [][EnqueueStep
         => /\ last'.op = "sync"
                  => Staggered(DelaysOf(Added, "fetch-transcript", 0), 0, 2000)
            /\ \A b \in (batches + 1)..batches' :
                  LET a == DelaysOf(Added, "analyze-video", b)
                      c == DelaysOf(Added, "complete-pipeline", b)
                  IN /\ Staggered(a, 0, 3000)
                     /\ c = <<Len(a) * 3000 + 5000>>
                     /\ \A i \in DOMAIN a : c[1] > a[i]]_vars

\* C27: as above, except that in the second part of the startup sweep the
\* index runs on across the creators: with q analyze-video jobs added for
\* the creators before, the i-th analyze-video job of a creator has delay
\* (q + i) * 3000 and its completion job (q + count) * 3000 + 5000.
C27_DelayIsRunningIndexTimesSpacing ==
    [][EnqueueStep
         => /\ last'.op = "sync"
                  => Staggered(DelaysOf(Added, "fetch-transcript", 0), 0, 2000)
            /\ \A b \in (batches + 1)..batches' :
                  LET firstOrphan == IF last'.op = "sweep"
                                     THEN OrphanBase.batches + 1 ELSE batches' + 1
                      q == IF b >= firstOrphan
                           THEN QueuedBefore(Added, firstOrphan, b) ELSE 0
                      a == DelaysOf(Added, "analyze-video", b)
                      c == DelaysOf(Added, "complete-pipeline", b)
                  IN /\ Staggered(a, q, 3000)
                     /\ c = <<(q + Len(a)) * 3000 + 5000>>
                     /\ \A i \in DOMAIN a : c[1] > a[i]]_vars

\* The sweep has just enqueued the batches of two creators: every
\* analyze-video job of the second batch waits in the delayed set.
C27_Witness ==
    /\ last.op = "sweep"
    /\ batches = 2
    /\ \E i \in DOMAIN waiting :
          waiting[i].type = "analyze-video" /\ waiting[i].batch = 1
    /\ \A i \in DOMAIN waiting : waiting[i].batch # 2
    /\ \E i \in DOMAIN delayed :
          delayed[i][1].type = "analyze-video" /\ delayed[i][1].batch = 2

\* C28: with a fair worker and no restart, a pipeline that was started for
\* an existing creator eventually has the status completed or failed.
C28_StartedPipelineEnds ==
    \A c \in Creators :
        (youtubers[c].exists /\ pstatus[c].status = "syncing")
          ~> (pstatus[c].status \in {"completed", "failed"})

\* C29: whenever a creator's status is completed, no fetch-transcript job
\* and no analyze-video job of that creator is waiting, delayed or active.
C29_CompletedLeavesNoEarlierWork ==
    \A c \in Creators :
        pstatus[c].status = "completed"
          => /\ JobsFor(Outstanding, "fetch-transcript", c) = {}
             /\ JobsFor(Outstanding, "analyze-video", c) = {}

\* C30: in every pipeline status record that was written, transcriptsFetched
\* and videosAnalyzed are at most totalVideos.
C30_CountersWithinTotal ==
    \A c \in Creators :
        pstatus[c].set
          => /\ pstatus[c].transcriptsFetched <= pstatus[c].totalVideos
             /\ pstatus[c].videosAnalyzed <= pstatus[c].totalVideos

====
